---- MODULE Spec2Model ----
(***************************************************************************)
(* Model of the spreadsheet-to-CRM line item synchronizer:                 *)
(*   loadParametersFromJson  -> buildDataTableFromParamsDynamic            *)
(*   -> processOliRecords (deactivate, revision, stamp, flatten, create).  *)
(*                                                                         *)
(* JavaScript values are tagged records, JavaScript objects are sequences  *)
(* of [k, v] pairs in key insertion order (the order `for .. in` walks).   *)
(* A string is written as its text `s` with `l` leading and `r` trailing   *)
(* whitespace characters, so that String.prototype.trim is a computation.  *)
(***************************************************************************)
EXTENDS Integers, Sequences, FiniteSets, TLC

(***************************************************************************)
(* JavaScript values                                                       *)
(***************************************************************************)
StrP(l, s, r) == [t |-> "str", s |-> s, l |-> l, r |-> r]
Str(s)  == StrP(0, s, 0)
Num(n)  == [t |-> "num", n |-> n]
Bool(b) == [t |-> "bool", b |-> b]
Null    == [t |-> "null"]
Undef   == [t |-> "undef"]
NaN     == [t |-> "nan"]
Obj(d)  == [t |-> "obj", o |-> d]
Arr(a)  == [t |-> "arr", a |-> a]
\* a Date object, what getValues() gives for a date cell; d is its day
Date(d) == [t |-> "date", d |-> d]

KV(k, v) == [k |-> k, v |-> v]

\* the empty string "" (what an empty spreadsheet cell reads as)
Empty == Str("")

\* String.prototype.trim on a string value
Trim(v) == StrP(0, v.s, 0)

\* JavaScript truthiness (the operand of `!x` and `x || y`)
Truthy(v) ==
  CASE v.t = "undef" -> FALSE
    [] v.t = "null"  -> FALSE
    [] v.t = "nan"   -> FALSE
    [] v.t = "bool"  -> v.b
    [] v.t = "num"   -> v.n # 0
    [] v.t = "str"   -> ~(v.s = "" /\ v.l = 0 /\ v.r = 0)
    [] OTHER         -> TRUE

\* typeof v === 'object' && v !== null
IsObjectLike(v) == v.t \in {"obj", "arr", "date"}

(***************************************************************************)
(* JavaScript objects as insertion-ordered key/value sequences             *)
(***************************************************************************)
Has(d, k) == \E i \in 1..Len(d) : d[i].k = k

Get(d, k) == IF Has(d, k) THEN d[CHOOSE i \in 1..Len(d) : d[i].k = k].v ELSE Undef

\* d[k] = v : an existing key keeps its position, a new key goes last
Put(d, k, v) ==
  IF Has(d, k)
    THEN [i \in 1..Len(d) |-> IF d[i].k = k THEN KV(k, v) ELSE d[i]]
    ELSE Append(d, KV(k, v))

\* the decimal text of a small array index, as `for .. in` names array slots
IndexKey(i) == <<"0", "1", "2", "3", "4", "5", "6", "7", "8", "9">>[i + 1]

\* the own enumerable properties `for (k in v)` walks, with their values
ForIn(v) ==
  CASE v.t = "obj" -> v.o
    [] v.t = "arr" -> [i \in 1..Len(v.a) |-> KV(IndexKey(i - 1), v.a[i])]
    [] OTHER       -> <<>>

\* v[k] : throws a TypeError on undefined and null, undefined on other scalars
PropThrows(v) == v.t \in {"undef", "null"}
Prop(v, k) == IF v.t = "obj" THEN Get(v.o, k) ELSE Undef

(***************************************************************************)
(* Logging.js.  L = [exists, rows, buf]: whether the JF_SCRIPT_LOG sheet   *)
(* exists, the rows this execution appended to it, and the execution's     *)
(* global logBuffer.  Messages are written by their fixed text only.       *)
(***************************************************************************)
LogHeader == "Timestamp|Message"

\* getSheetByName("JF_SCRIPT_LOG") || insertSheet + appendRow(header)
EnsureLogSheet(L) ==
  IF L.exists THEN L
  ELSE [L EXCEPT !.exists = TRUE, !.rows = Append(L.rows, LogHeader)]

DEBUG_MODE == TRUE

logMessage(L, message) ==
  LET L1 == IF DEBUG_MODE
              THEN [EnsureLogSheet(L) EXCEPT !.rows = Append(@, message)]
              ELSE L
  IN [L1 EXCEPT !.buf = Append(@, message)]

flushLogs(L) ==
  IF Len(L.buf) > 0
    THEN [EnsureLogSheet(L) EXCEPT !.rows = @ \o L.buf, !.buf = <<>>]
    ELSE L

(***************************************************************************)
(* The spreadsheet `ss`:                                                   *)
(*   hasParams  - the JF_SCRIPT_PARAMS sheet exists                        *)
(*   paramCells - its column A, one cell per row up to getLastRow()        *)
(*   sheets     - the other sheets by name, each a rectangular block of    *)
(*                cell values (rows 1..getLastRow(), getLastColumn() wide) *)
(* A parameter cell is blank, text that is not JSON, or JSON text given by *)
(* the value it denotes.                                                   *)
(***************************************************************************)
BlankCell   == [kind |-> "blank"]
TextCell    == [kind |-> "text"]
JsonCell(v) == [kind |-> "json", v |-> v]

\* String(cell).trim() is the empty string
IsBlankCell(cell) == cell.kind = "blank"

\* JSON.parse(String(cell).trim()) returns (TRUE) or throws (FALSE)
ParseOk(cell) == cell.kind = "json"
Parsed(cell)  == cell.v

Ok(val, L)     == [thrown |-> FALSE, val |-> val, L |-> L]
Throw(err, L)  == [thrown |-> TRUE,  val |-> err, L |-> L]

\* one `params[key]` update of the aggregation loop
AggregateKey(params, key, value) ==
  IF Has(params, key)
    THEN LET cur == Get(params, key)
             arr == IF cur.t = "arr" THEN cur.a ELSE <<cur>>
         IN Put(params, key, Arr(Append(arr, value)))
    ELSE Put(params, key, value)

RECURSIVE AggregateAll(_, _, _)
AggregateAll(params, pairs, i) ==
  IF i > Len(pairs) THEN params
  ELSE AggregateAll(AggregateKey(params, pairs[i].k, pairs[i].v), pairs, i + 1)

\* a row loop that passes over a cell that does not parse
RECURSIVE LoadRowsLenient(_, _, _, _)
LoadRowsLenient(data, i, params, L) ==
  IF i > Len(data) THEN Ok(params, L)
  ELSE IF IsBlankCell(data[i])
    THEN LoadRowsLenient(data, i + 1, params, logMessage(L, "Skipping blank cell at row"))
  ELSE IF ~ParseOk(data[i])
    THEN LoadRowsLenient(data, i + 1, params, logMessage(L, "Error parsing JSON at row"))
  ELSE LoadRowsLenient(data, i + 1, AggregateAll(params, ForIn(Parsed(data[i])), 1), L)

\* the row loop of loadParametersFromJson; i is the 1-based row number
RECURSIVE LoadRows(_, _, _, _)
LoadRows(data, i, params, L) ==
  IF i > Len(data) THEN Ok(params, L)
  ELSE IF IsBlankCell(data[i])
    THEN LoadRows(data, i + 1, params, logMessage(L, "Skipping blank cell at row"))
  ELSE IF ~ParseOk(data[i])
    THEN Throw([msg |-> "Error parsing JSON at row", row |-> i],
               logMessage(L, "Error parsing JSON at row"))
  ELSE LoadRows(data, i + 1, AggregateAll(params, ForIn(Parsed(data[i])), 1), L)

\* a loader without header detection: every cell is a parameter cell
loadParametersFromJsonNoHeader(ss, L0) ==
  LET Looped(res) ==
        IF res.thrown THEN res
        ELSE Ok(res.val, flushLogs(logMessage(res.L, "Finished loadParametersFromJson()")))
  IN Looped(LoadRows(ss.paramCells, 1, <<>>,
                     logMessage(logMessage(logMessage(L0, "Starting loadParametersFromJson()"),
                                           "Detected last row in JF_SCRIPT_PARAMS"),
                                "Raw JSON data")))

\* Each local operator below is the rest of the function from the point
\* where the value it is applied to has been computed.
loadParametersFromJson(ss, L0) ==
  LET Looped(res) ==
        IF res.thrown THEN res
        ELSE Ok(res.val, flushLogs(logMessage(res.L, "Finished loadParametersFromJson()")))
      Read(L2) ==
        IF Len(ss.paramCells) < 1
          THEN Throw([msg |-> "No data found in 'JF_SCRIPT_PARAMS' sheet."],
                     logMessage(L2, "No data found in 'JF_SCRIPT_PARAMS' sheet."))
        ELSE LET startRow == IF ParseOk(ss.paramCells[1]) THEN 0 ELSE 1
             IN Looped(LoadRows(ss.paramCells, startRow + 1, <<>>,
                                logMessage(L2, "Raw JSON data")))
      Started(L1) ==
        IF ~ss.hasParams
          THEN Throw([msg |-> "Sheet 'JF_SCRIPT_PARAMS' not found."],
                     logMessage(L1, "Sheet 'JF_SCRIPT_PARAMS' not found."))
        ELSE Read(logMessage(L1, "Detected last row in JF_SCRIPT_PARAMS"))
  IN Started(logMessage(L0, "Starting loadParametersFromJson()"))

exampleLoadParameters(ss, L0) ==
  LET Loaded(res) == IF res.thrown THEN res
                     ELSE Ok(res.val, logMessage(res.L, "Loaded Parameters"))
  IN Loaded(loadParametersFromJson(ss, L0))

(***************************************************************************)
(* buildDataTableFromParamsDynamic                                         *)
(***************************************************************************)
\* decimal text of the small numbers that occur as cell values
NumText(n) == IF n \in 0..9 THEN IndexKey(n) ELSE "10+"

\* String(v)
ToStr(v) ==
  CASE v.t = "str"   -> v
    [] v.t = "num"   -> Str(NumText(v.n))
    [] v.t = "bool"  -> Str(IF v.b THEN "true" ELSE "false")
    [] v.t = "null"  -> Str("null")
    [] v.t = "undef" -> Str("undefined")
    [] v.t = "nan"   -> Str("NaN")
    [] v.t = "date"  -> Str(<<"Day 0", "Day 1", "Day 2">>[v.d + 1])
    [] OTHER         -> Str("[object Object]")

\* the property name a value denotes when used as `record[v]`
KeyOf(v) == ToStr(v).s

\* ss.getSheetByName(name): the sheet's rows, or absent
SheetExists(ss, name) == name.t = "str" /\ name.l = 0 /\ name.r = 0 /\ name.s \in DOMAIN ss.sheets

\* a header scan in which the match furthest right wins
RECURSIVE FindHeaderLast(_, _, _)
FindHeaderLast(headerRow, labelToFind, j) ==
  IF j >= Len(headerRow) THEN -1
  ELSE IF FindHeaderLast(headerRow, labelToFind, j + 1) >= 0
    THEN FindHeaderLast(headerRow, labelToFind, j + 1)
  ELSE IF Trim(ToStr(headerRow[j + 1])) = labelToFind THEN j
  ELSE -1

\* first j (0-based) with String(headerRow[j]).trim() === labelToFind, or -1
RECURSIVE FindHeader(_, _, _)
FindHeader(headerRow, labelToFind, j) ==
  IF j >= Len(headerRow) THEN -1
  ELSE IF Trim(ToStr(headerRow[j + 1])) = labelToFind THEN j
  ELSE FindHeader(headerRow, labelToFind, j + 1)

\* a loop over groupArray that fails on a label no header cell has
RECURSIVE MapGroupStrict(_, _, _, _, _)
MapGroupStrict(groupArray, headerRow, i, acc, L) ==
  IF i > Len(groupArray) THEN Ok(acc, L)
  ELSE LET item == groupArray[i] IN
    IF PropThrows(item)
      THEN Throw([msg |-> "TypeError: cannot read object_label"], L)
    ELSE IF ~Truthy(Prop(item, "object_label")) \/ ~Truthy(Prop(item, "object_api_name"))
      THEN MapGroupStrict(groupArray, headerRow, i + 1, acc, L)
    ELSE LET labelToFind == Trim(ToStr(Prop(item, "object_label")))
             j == FindHeader(headerRow, labelToFind, 0)
         IN IF j >= 0
              THEN MapGroupStrict(groupArray, headerRow, i + 1,
                                  Append(acc, [api |-> Prop(item, "object_api_name"), col |-> j]), L)
              ELSE Throw([msg |-> "Header label not found."], L)

\* the loop over groupArray (i is 1-based); acc is overallMapping[key]
RECURSIVE MapGroup(_, _, _, _, _)
MapGroup(groupArray, headerRow, i, acc, L) ==
  IF i > Len(groupArray) THEN Ok(acc, L)
  ELSE LET item == groupArray[i] IN
    IF PropThrows(item)
      THEN Throw([msg |-> "TypeError: cannot read object_label"], L)
    ELSE IF ~Truthy(Prop(item, "object_label")) \/ ~Truthy(Prop(item, "object_api_name"))
      THEN MapGroup(groupArray, headerRow, i + 1, acc, L)
    ELSE LET labelToFind == Trim(ToStr(Prop(item, "object_label")))
             apiName == Prop(item, "object_api_name")
             j == FindHeader(headerRow, labelToFind, 0)
         IN IF j >= 0
              THEN MapGroup(groupArray, headerRow, i + 1,
                            Append(acc, [api |-> apiName, col |-> j]), L)
              ELSE MapGroup(groupArray, headerRow, i + 1, acc,
                            logMessage(L, "Warning: Header label not found."))

\* a test that passes over "Input Sheet" only
IsReservedKeyInputOnly(key) == key = "Input Sheet"

IsReservedKey(key) == key = "Input Sheet" \/ key = "Table Header Row"

\* the loop over the keys of params (i is 1-based); acc is overallMapping
RECURSIVE MapAll(_, _, _, _, _)
MapAll(params, headerRow, i, acc, L) ==
  IF i > Len(params) THEN Ok(acc, L)
  ELSE IF IsReservedKey(params[i].k) THEN MapAll(params, headerRow, i + 1, acc, L)
  ELSE LET groupData == params[i].v
           groupArray == IF groupData.t = "arr" THEN groupData.a ELSE <<groupData>>
           Mapped(res) ==
             IF res.thrown THEN res
             ELSE MapAll(params, headerRow, i + 1, Put(acc, params[i].k, res.val), res.L)
       IN Mapped(MapGroup(groupArray, headerRow, 1, <<>>, L))

\* a nesting loop that leaves a field alone once it is set
RECURSIVE NestGroupFirstWins(_, _, _, _)
NestGroupFirstWins(mappings, row, k, acc) ==
  IF k > Len(mappings) THEN acc
  ELSE NestGroupFirstWins(mappings, row, k + 1,
                          IF Has(acc, KeyOf(mappings[k].api)) THEN acc
                          ELSE Put(acc, KeyOf(mappings[k].api), row[mappings[k].col + 1]))

\* record[group][mappings[k].api] = row[mappings[k].col] for k = 1..
RECURSIVE NestGroup(_, _, _, _)
NestGroup(mappings, row, k, acc) ==
  IF k > Len(mappings) THEN acc
  ELSE NestGroup(mappings, row, k + 1,
                 Put(acc, KeyOf(mappings[k].api), row[mappings[k].col + 1]))

\* a loop over the groups that nests every group, an empty one too
RECURSIVE BuildRecordNestAll(_, _, _, _)
BuildRecordNestAll(overallMapping, row, g, record) ==
  IF g > Len(overallMapping) THEN record
  ELSE LET mappings == overallMapping[g].v IN
    IF Len(mappings) = 1
      THEN BuildRecordNestAll(overallMapping, row, g + 1,
                              Put(record, KeyOf(mappings[1].api), row[mappings[1].col + 1]))
    ELSE BuildRecordNestAll(overallMapping, row, g + 1,
                            Put(record, overallMapping[g].k, Obj(NestGroup(mappings, row, 1, <<>>))))

\* the loop over the groups of overallMapping for one row
RECURSIVE BuildRecord(_, _, _, _)
BuildRecord(overallMapping, row, g, record) ==
  IF g > Len(overallMapping) THEN record
  ELSE LET mappings == overallMapping[g].v IN
    IF Len(mappings) = 0 THEN BuildRecord(overallMapping, row, g + 1, record)
    ELSE IF Len(mappings) = 1
      THEN BuildRecord(overallMapping, row, g + 1,
                       Put(record, KeyOf(mappings[1].api), row[mappings[1].col + 1]))
    ELSE BuildRecord(overallMapping, row, g + 1,
                     Put(record, overallMapping[g].k, Obj(NestGroup(mappings, row, 1, <<>>))))

\* a row loop that stops at any falsy first cell
IsBlankRowFalsy(row) == ~Truthy(row[1])

\* row[0] === "" || row[0] === null
IsBlankRow(row) == row[1] = Empty \/ row[1] = Null

\* the loop over dataRows (r is 1-based)
RECURSIVE BuildRows(_, _, _, _, _)
BuildRows(overallMapping, dataRows, r, records, L) ==
  IF r > Len(dataRows) THEN Ok(records, L)
  ELSE IF IsBlankRow(dataRows[r])
    THEN Ok(records, logMessage(L, "Blank row encountered. Stopping data processing."))
  ELSE BuildRows(overallMapping, dataRows, r + 1,
                 Append(records, BuildRecord(overallMapping, dataRows[r], 1, <<>>)), L)

\* a row of empty cells, what getValues() gives for a row below the data
EmptyRow(width) == [c \in 1..width |-> Empty]

buildDataTableFromParamsDynamic(ss, L0) ==
  LET Built(br) ==
        Ok(br.val, flushLogs(logMessage(logMessage(br.L, "Built data table"),
                                        "Final Data Table")))
      Mapped(sheet, h, mp) ==
        IF mp.thrown THEN mp
        ELSE IF Len(sheet) - h < 1
          THEN Throw([msg |-> "getRange: invalid range"],
                     logMessage(mp.L, "Final overall mapping"))
        ELSE Built(BuildRows(mp.val, SubSeq(sheet, h + 1, Len(sheet)), 1, <<>>,
                             logMessage(mp.L, "Final overall mapping")))
      Ranged(params, sheet, headerRowNumber, lastRow, lastColumn, L3) ==
        IF headerRowNumber.t # "num" \/ lastColumn < 1
          THEN Throw([msg |-> "getRange: invalid range"], L3)
        ELSE IF headerRowNumber.n < 1
          THEN Throw([msg |-> "getRange: invalid range"], L3)
        ELSE LET h == headerRowNumber.n
                 headerRow == IF h <= lastRow THEN sheet[h] ELSE EmptyRow(lastColumn)
             IN Mapped(sheet, h, MapAll(params, headerRow, 1, <<>>, L3))
      Opened(params, sheet, headerRowNumber, L2) ==
        Ranged(params, sheet, headerRowNumber, Len(sheet),
               IF Len(sheet) = 0 THEN 0 ELSE Len(sheet[1]),
               logMessage(L2, "Processing input sheet"))
      Named(params, inputSheetName, headerRowNumber, L2) ==
        IF ~SheetExists(ss, inputSheetName)
          THEN Throw([msg |-> "Input sheet not found."], L2)
        ELSE Opened(params, ss.sheets[inputSheetName.s], headerRowNumber, L2)
      Keyed(params, inputSheet, tableHeaderRow, L2) ==
        IF PropThrows(inputSheet) \/ PropThrows(tableHeaderRow)
          THEN Throw([msg |-> "TypeError: cannot read Name"], L2)
        ELSE Named(params, Prop(inputSheet, "Name"), Prop(tableHeaderRow, "Name"), L2)
      Loaded(ld) ==
        IF ld.thrown THEN ld
        ELSE Keyed(ld.val, Get(ld.val, "Input Sheet"), Get(ld.val, "Table Header Row"),
                   logMessage(ld.L, "Loaded parameters"))
  IN Loaded(loadParametersFromJson(ss, logMessage(L0, "Starting buildDataTableFromParamsDynamic")))

(***************************************************************************)
(* formatOLIs                                                              *)
(***************************************************************************)
\* a merge that leaves a key alone once it is set
RECURSIVE PutAllFirstWins(_, _, _)
PutAllFirstWins(flatRecord, pairs, i) ==
  IF i > Len(pairs) THEN flatRecord
  ELSE PutAllFirstWins(IF Has(flatRecord, pairs[i].k) THEN flatRecord
                       ELSE Put(flatRecord, pairs[i].k, pairs[i].v), pairs, i + 1)

\* flatRecord[k] = v for every pair of `pairs`, in order (i is 1-based)
RECURSIVE PutAll(_, _, _)
PutAll(flatRecord, pairs, i) ==
  IF i > Len(pairs) THEN flatRecord
  ELSE PutAll(Put(flatRecord, pairs[i].k, pairs[i].v), pairs, i + 1)

\* the loop over the keys of one record (i is 1-based)
RECURSIVE FlattenRecord(_, _, _)
FlattenRecord(record, i, flatRecord) ==
  IF i > Len(record) THEN flatRecord
  ELSE IF IsObjectLike(record[i].v)
    THEN FlattenRecord(record, i + 1, PutAll(flatRecord, ForIn(record[i].v), 1))
  ELSE FlattenRecord(record, i + 1, Put(flatRecord, record[i].k, record[i].v))

formatOLIs(oliData) == [i \in 1..Len(oliData) |-> FlattenRecord(oliData[i], 1, <<>>)]

(***************************************************************************)
(* The remote object store.  store[id] is the line item with that id:      *)
(*   parent, active, rev - its opportunity_id__c, Active__c and            *)
(*                         Version_Number__c field values                  *)
(*   by                  - the number of the run whose create call made it *)
(*                         (0: it was there before the first run)          *)
(***************************************************************************)
\* WHERE opportunity_id__c = '${oppId}'
ParentMatches(item, oppId) == item.parent.t = "str" /\ item.parent = ToStr(oppId)

\* the active-id query without its parent condition
ActiveIdsAnyParent(st, oppId) ==
  {id \in 1..Len(st) : st[id].active = Bool(TRUE)}

\* SELECT Id ... WHERE opportunity_id__c = '${oppId}' AND Active__c = true
ActiveIds(st, oppId) ==
  {id \in 1..Len(st) : ParentMatches(st[id], oppId) /\ st[id].active = Bool(TRUE)}

ItemsOf(st, oppId) == {id \in 1..Len(st) : ParentMatches(st[id], oppId)}

Max(S) == CHOOSE x \in S : \A y \in S : y <= x

\* the numeric revisions stored for the parent
RevisionsOf(st, oppId) ==
  {st[id].rev.n : id \in {i \in ItemsOf(st, oppId) : st[i].rev.t = "num"}}

\* the answers the store can give to
\*   SELECT Version_Number__c ... ORDER BY Version_Number__c DESC LIMIT 1
\* a records list (null revisions sort first or last), or an error payload
\* without a records field
MaxRevisionAnswers(st, oppId) ==
  LET items == ItemsOf(st, oppId)
      nums  == RevisionsOf(st, oppId)
      hasNull == \E id \in items : st[id].rev.t # "num"
  IN {[kind |-> "error"]}
     \cup (IF items = {} THEN {[kind |-> "records", records |-> <<>>]} ELSE {})
     \cup (IF nums # {} THEN {[kind |-> "records", records |-> <<Num(Max(nums))>>]} ELSE {})
     \cup (IF hasNull THEN {[kind |-> "records", records |-> <<Null>>]} ELSE {})

\* a record the store can take: a boolean flag and a numeric or empty revision
Acceptable(rec) ==
  /\ Get(rec, "Active__c").t = "bool"
  /\ Get(rec, "Version_Number__c").t \in {"num", "null", "undef"}

NewItem(rec, n) ==
  [parent |-> IF Has(rec, "opportunity_id__c") THEN Get(rec, "opportunity_id__c") ELSE Null,
   active |-> Get(rec, "Active__c"),
   rev    |-> IF Has(rec, "Version_Number__c") THEN Get(rec, "Version_Number__c") ELSE Null,
   by     |-> n]

\* a create call that submits the rejected records again until they are taken
RECURSIVE ApplyCreateResubmit(_, _, _, _, _)
ApplyCreateResubmit(st, batch, acc, n, i) ==
  IF i > Len(batch) THEN st
  ELSE ApplyCreateResubmit(Append(st, NewItem(batch[i], n)), batch, acc, n, i + 1)

\* the store after a create batch of which the records at positions `acc`
\* were accepted (allOrNone: false), ids given in batch order
RECURSIVE ApplyCreate(_, _, _, _, _)
ApplyCreate(st, batch, acc, n, i) ==
  IF i > Len(batch) THEN st
  ELSE ApplyCreate(IF i \in acc THEN Append(st, NewItem(batch[i], n)) ELSE st,
                   batch, acc, n, i + 1)

\* the store after an update batch `records` (Id -> the Active__c sent) of
\* which the updates of the ids in `acc` were accepted (allOrNone: false)
ApplyUpdate(st, records, acc) ==
  [id \in 1..Len(st) |-> IF id \in acc THEN [st[id] EXCEPT !.active = records[id]] ELSE st[id]]

\* the answers the store can give to the active-id query: the matching ids,
\* or an error payload without a records field
ActiveIdAnswers(st, oppId) ==
  {[kind |-> "error"], [kind |-> "records", ids |-> ActiveIds(st, oppId)]}

(***************************************************************************)
(* getHighestRevisionNumber, the stamping loop, createLineItems            *)
(***************************************************************************)
\* step 4 reading a field the response does not carry
getHighestRevisionNumberNoField(body) ==
  IF body.kind = "records" /\ Len(body.records) > 0
    THEN IF Truthy(Undef) THEN body.records[1].n ELSE 0
    ELSE 0

\* step 4 of getHighestRevisionNumber, on the parsed response body
getHighestRevisionNumber(body) ==
  IF body.kind = "records" /\ Len(body.records) > 0
    THEN IF Truthy(body.records[1]) THEN body.records[1].n ELSE 0
    ELSE 0

\* STEP 5 of processOliRecords, for one record
Stamp(record, oppId, newRevision) ==
  Put(Put(Put(record, "opportunity_id__c", oppId),
          "Active__c", Bool(TRUE)),
      "Version_Number__c", Num(newRevision))

\* a discount sent as it is
Times100NoScale(v) == v

\* 100 * v
Times100(v) ==
  CASE v.t = "num"  -> Num(100 * v.n)
    [] v.t = "date" -> Num(100 * v.d)
    [] v.t = "null" -> Num(0)
    [] v.t = "bool" -> Num(IF v.b THEN 100 ELSE 0)
    [] v.t = "str"  -> IF v.s = "" THEN Num(0) ELSE NaN
    [] OTHER        -> NaN

\* the body of lineItems.map in createLineItems
PrepItem(item, oppId) ==
  LET i1 == Put(item, "opportunity_id__c", oppId)
      i2 == Put(i1, "Sales_Discount__c", Times100(Get(i1, "Sales_Discount__c")))
  IN PutAll(<<KV("attributes", Obj(<<KV("type", Str("jellyfish_line_item__c"))>>))>>, i2, 1)

\* JSON.stringify of one record: undefined members vanish, NaN becomes null
RECURSIVE Stringify(_, _, _)
Stringify(rec, i, out) ==
  IF i > Len(rec) THEN out
  ELSE IF rec[i].v.t = "undef" THEN Stringify(rec, i + 1, out)
  ELSE IF rec[i].v.t = "nan" THEN Stringify(rec, i + 1, Append(out, KV(rec[i].k, Null)))
  ELSE Stringify(rec, i + 1, Append(out, rec[i]))

\* the records array of the create payload
CreatePayload(oppId, lineItems) ==
  [i \in 1..Len(lineItems) |-> Stringify(PrepItem(lineItems[i], oppId), 1, <<>>)]

(***************************************************************************)
(* The spreadsheets the runs are started on                                *)
(***************************************************************************)
InputSheetCell(name) == JsonCell(Obj(<<KV("Input Sheet", Obj(<<KV("Name", Str(name))>>))>>))
HeaderRowCell(n)     == JsonCell(Obj(<<KV("Table Header Row", Obj(<<KV("Name", Num(n))>>))>>))
MapCell(group, label, api) ==
  JsonCell(Obj(<<KV(group, Obj(<<KV("object_label", Str(label)),
                                 KV("object_api_name", Str(api))>>))>>))

LineItemGroup == "jellyfish_line_item__c"

HeaderCells == <<Str("Opportunity"), Str("Product"), Str("Active"), Str("Version")>>
RowP1a == <<Str("P1"), Str("Widget"), Bool(FALSE), Num(7)>>
RowP1b == <<Str("P1"), Str("Gadget"), Bool(FALSE), Num(7)>>
RowP2  == <<Str("P2"), Str("Widget"), Bool(FALSE), Num(7)>>
RowBlank == <<Empty, Str("Widget"), Bool(FALSE), Num(7)>>

SheetsAB == [Opp1 |-> <<HeaderCells, RowP1a, RowP1b>>,
             Opp2 |-> <<HeaderCells, RowP2>>,
             Opp3 |-> <<HeaderCells, RowBlank, RowP1a>>,
             Opp4 |-> <<HeaderCells, RowP1a, RowP2>>]

ParentMapCells == <<MapCell(LineItemGroup, "Opportunity", "opportunity_id__c"),
                    MapCell(LineItemGroup, "Product", "Product__c")>>

\* a parameter sheet with a header label in row 1, for the named input sheet
ParamsFor(name, mapCells) ==
  <<TextCell, InputSheetCell(name), HeaderRowCell(1)>> \o mapCells

Workbook(cells) == [hasParams |-> TRUE, paramCells |-> cells, sheets |-> SheetsAB]

\* two line items for parent P1
WbP1 == Workbook(ParamsFor("Opp1", ParentMapCells))
\* one line item for parent P2
WbP2 == Workbook(ParamsFor("Opp2", ParentMapCells))
\* a single-mapping group and the line item group both map a column to the
\* active flag and to the revision number
WbCollide ==
  Workbook(ParamsFor("Opp2",
    <<MapCell("flag", "Active", "Active__c"),
      MapCell("ver", "Version", "Version_Number__c"),
      MapCell(LineItemGroup, "Opportunity", "opportunity_id__c"),
      MapCell(LineItemGroup, "Active", "Active__c"),
      MapCell(LineItemGroup, "Version", "Version_Number__c")>>))
\* the line item group maps no column to the parent id
WbNoParentField ==
  Workbook(ParamsFor("Opp2",
    <<MapCell(LineItemGroup, "Product", "Product__c"),
      MapCell(LineItemGroup, "Active", "Shown__c")>>))
\* the first data row has an empty first cell
WbNoRows == Workbook(ParamsFor("Opp3", ParentMapCells))
\* a line item of parent P1 and then one whose parent cell says P2
WbMixed == Workbook(ParamsFor("Opp4", ParentMapCells))
WbNoParamSheet == [hasParams |-> FALSE, paramCells |-> <<>>, sheets |-> SheetsAB]
WbNoInputSheetKey == Workbook(<<HeaderRowCell(1)>> \o ParentMapCells)
WbNoHeaderRowKey  == Workbook(<<InputSheetCell("Opp1")>> \o ParentMapCells)
WbNoSuchSheet     == Workbook(ParamsFor("Opp9", ParentMapCells))

Workbooks == {WbP1, WbP2, WbMixed, WbCollide, WbNoParentField, WbNoRows,
              WbNoParamSheet, WbNoInputSheetKey, WbNoHeaderRowKey, WbNoSuchSheet}

(***************************************************************************)
(* processOliRecords as a state machine.  Each remote call is one step;    *)
(* the code between two remote calls belongs to the step of the call it    *)
(* follows.  run[r] holds the locals of execution r:                       *)
(*   pc        - idle, deactivate (before the active-id query), update,    *)
(*               revision, create, done (summary returned), raised         *)
(*   n         - the number of the run, ss - the spreadsheet it runs on    *)
(*   calls     - the UrlFetchApp.fetch calls made so far                   *)
(*   response  - the body of the last data response received               *)
(*   applied   - the ids whose deactivation the store applied for this run *)
(*   overlap   - another execution was in progress during this run         *)
(*   rows, buf - the rows appended to the log sheet, the log buffer        *)
(***************************************************************************)
\* the number of runs started in a behaviour
MaxRuns == 2

Runs == {"e1", "e2"}

VARIABLES
  store,           \* the remote line item collection
  run,             \* per execution: the locals of processOliRecords
  logSheetExists,  \* the JF_SCRIPT_LOG sheet exists
  nstarts,         \* runs started so far
  call             \* a single function call on its own: function, arguments, result

vars == <<store, run, logSheetExists, nstarts, call>>

None == [kind |-> "none"]

\* no function is called on its own
NoCall == [fn |-> "none"]

NoRun ==
  [pc |-> "idle", n |-> 0, ss |-> [hasParams |-> FALSE, paramCells |-> <<>>, sheets |-> <<>>],
   oliData |-> <<>>, oppId |-> Undef,
   activeLineItemIds |-> {}, records |-> <<>>, deactivationResults |-> None,
   highestRevision |-> 0, newRevision |-> 0, formattedOliData |-> <<>>,
   payload |-> <<>>, insertionResults |-> None,
   resultSummary |-> None, thrown |-> [msg |-> ""],
   calls |-> <<>>, response |-> None, applied |-> {},
   rows |-> <<>>, buf |-> <<>>, overlap |-> FALSE]

\* a line item that predates the revision field
LegacyItem == [parent |-> Str("P1"), active |-> Bool(TRUE), rev |-> Null, by |-> 0]

InitialStores == {<<>>, <<LegacyItem>>}

Init ==
  /\ store \in InitialStores
  /\ run = [r \in Runs |-> NoRun]
  /\ logSheetExists = FALSE
  /\ nstarts = 0
  /\ call = NoCall

InProgress(rr) == rr.pc \in {"deactivate", "update", "revision", "create"}

LogOf(rr) == [exists |-> logSheetExists, rows |-> rr.rows, buf |-> rr.buf]

WithLog(rr, L) == [rr EXCEPT !.rows = L.rows, !.buf = L.buf]

\* steps 1-2 with the parent id read from the last record built
LoadAndIdentifyLast(ss, L0) ==
  LET Identified(oliData, L1) ==
        IF Len(oliData) = 0
          THEN Throw([msg |-> "TypeError: cannot read jellyfish_line_item__c"], L1)
        ELSE IF PropThrows(Get(oliData[1], LineItemGroup))
          THEN Throw([msg |-> "TypeError: cannot read opportunity_id__c"], L1)
        ELSE Ok([oliData |-> oliData,
                 oppId |-> Prop(Get(oliData[Len(oliData)], LineItemGroup),
                               "opportunity_id__c")],
                logMessage(L1, "Found Opportunity ID"))
      Built(b) ==
        IF b.thrown THEN b
        ELSE Identified(b.val, logMessage(b.L, "OLI Data Table built successfully."))
      Loaded(p) ==
        IF p.thrown THEN p ELSE Built(buildDataTableFromParamsDynamic(ss, p.L))
  IN Loaded(exampleLoadParameters(ss, L0))

\* steps 1-2 of processOliRecords and the read of the parent id
LoadAndIdentify(ss, L0) ==
  LET Identified(oliData, L1) ==
        IF Len(oliData) = 0
          THEN Throw([msg |-> "TypeError: cannot read jellyfish_line_item__c"], L1)
        ELSE IF PropThrows(Get(oliData[1], LineItemGroup))
          THEN Throw([msg |-> "TypeError: cannot read opportunity_id__c"], L1)
        ELSE Ok([oliData |-> oliData,
                 oppId |-> Prop(Get(oliData[1], LineItemGroup), "opportunity_id__c")],
                logMessage(L1, "Found Opportunity ID"))
      Built(b) ==
        IF b.thrown THEN b
        ELSE Identified(b.val, logMessage(b.L, "OLI Data Table built successfully."))
      Loaded(p) ==
        IF p.thrown THEN p ELSE Built(buildDataTableFromParamsDynamic(ss, p.L))
  IN Loaded(exampleLoadParameters(ss, L0))

ErrorLine == "Error in processOliRecords"

\* a catch block that rethrows without logging
CaughtSilent(rr, err, L) ==
  WithLog([rr EXCEPT !.pc = "raised", !.thrown = err], L)

\* the catch block of processOliRecords: log, rethrow
Caught(rr, err, L) ==
  WithLog([rr EXCEPT !.pc = "raised", !.thrown = err], logMessage(L, ErrorLine))

\* a catch block that re-activates what the run deactivated
CatchStoreRollback(st, rr) ==
  [id \in 1..Len(st) |-> IF id \in rr.applied THEN [st[id] EXCEPT !.active = Bool(TRUE)] ELSE st[id]]

\* what the catch block does to the remote store: nothing, no compensating
\* request is sent for the deactivations the store applied
CatchStore(st, rr) == st

\* getSalesforceAccessToken failing: no access_token in the response, or the
\* token endpoint not reached
TokenError == [msg |-> "Failed to get access token"]
\* UrlFetchApp.fetch of a data request throwing
FetchError == [msg |-> "fetch failed"]

\* requests sent without a token exchange before them
CalledNoToken(rr, calls) ==
  LET IsRequest(c) == c # "token"
  IN [rr EXCEPT !.calls = @ \o SelectSeq(calls, IsRequest)]

Called(rr, calls) == [rr EXCEPT !.calls = @ \o calls]

\* the executions that overlap a run starting now
Others(r) == {o \in Runs \ {r} : InProgress(run[o])}

StartOn(r, books) ==
  /\ ~InProgress(run[r])
  /\ nstarts < MaxRuns
  /\ nstarts' = nstarts + 1
  /\ \E ss \in books :
       LET fresh == [NoRun EXCEPT !.n = nstarts + 1, !.ss = ss,
                                  !.overlap = Others(r) # {}]
           Started(res) ==
             IF res.thrown
               THEN Caught(fresh, res.val, res.L)
               ELSE WithLog([fresh EXCEPT !.pc = "deactivate",
                                          !.oliData = res.val.oliData,
                                          !.oppId = res.val.oppId], res.L)
       IN /\ run' = [o \in Runs |->
                      IF o = r THEN Started(LoadAndIdentify(ss, LogOf(fresh)))
                      ELSE IF o \in Others(r) THEN [run[o] EXCEPT !.overlap = TRUE]
                      ELSE run[o]]
          /\ logSheetExists' = TRUE
  /\ UNCHANGED <<store, call>>

\* an end of getActiveLineItemIds that takes an error payload for no ids
getActiveLineItemIdsLenient(json) ==
  IF json.kind # "records"
    THEN [thrown |-> FALSE, val |-> {}]
    ELSE [thrown |-> FALSE, val |-> json.ids]

\* the end of getActiveLineItemIds, on the parsed response body
getActiveLineItemIds(json) ==
  IF json.kind # "records"
    THEN [thrown |-> TRUE, val |-> [msg |-> "No records found or error in query"]]
    ELSE [thrown |-> FALSE, val |-> json.ids]

\* update records that leave the flag set
DeactivationRecordsKeep(activeLineItemIds) == [id \in activeLineItemIds |-> Bool(TRUE)]

\* the records of the deactivation payload: Id -> the Active__c sent
DeactivationRecords(activeLineItemIds) == [id \in activeLineItemIds |-> Bool(FALSE)]

\* deactivateAllActiveLineItems up to the building of the update records
GetActiveLineItemIds(r) ==
  /\ run[r].pc = "deactivate"
  /\ \/ \E out \in {"token1", "token2", "transport"} :
          run' = [run EXCEPT ![r] =
            CASE out = "token1" -> Caught(Called(@, <<"token">>), TokenError, LogOf(@))
              [] out = "token2" -> Caught(Called(@, <<"token", "token">>), TokenError, LogOf(@))
              [] OTHER -> Caught(Called(@, <<"token", "token", "query">>), FetchError, LogOf(@))]
     \/ \E json \in ActiveIdAnswers(store, run[r].oppId) :
          LET res == getActiveLineItemIds(json)
              rr == [Called(run[r], <<"token", "token", "query">>) EXCEPT !.response = json]
          IN run' = [run EXCEPT ![r] =
               IF res.thrown THEN Caught(rr, res.val, LogOf(rr))
               ELSE [rr EXCEPT !.pc = "update", !.activeLineItemIds = res.val,
                               !.records = DeactivationRecords(res.val)]]
  /\ UNCHANGED <<store, logSheetExists, nstarts, call>>

\* a caller that treats a rejected update as fatal
AfterDeactivationStrict(rr, json, L) ==
  IF json.kind = "results" /\ json.success = DOMAIN rr.records
    THEN WithLog([rr EXCEPT !.pc = "revision", !.deactivationResults = json],
                 logMessage(L, "Deactivation results"))
    ELSE WithLog([rr EXCEPT !.pc = "raised", !.thrown = [msg |-> "update rejected"]],
                 logMessage(L, "Error in processOliRecords"))

\* a caller that goes from the deactivation straight to the create call
AfterDeactivationToCreate(rr, json, L) ==
  WithLog([rr EXCEPT !.pc = "create", !.deactivationResults = json],
          logMessage(L, "Deactivation results"))

\* processOliRecords after deactivateAllActiveLineItems returned `json`
AfterDeactivation(rr, json, L) ==
  WithLog([rr EXCEPT !.pc = "revision", !.deactivationResults = json],
          logMessage(L, "Deactivation results"))

\* the PATCH of deactivateAllActiveLineItems and the log line after it
DeactivateUpdate(r) ==
  /\ run[r].pc = "update"
  /\ \E out \in {"transport", "error", "results"} :
     \E acc \in SUBSET DOMAIN run[r].records :
       /\ out = "error" => acc = {}
       /\ LET rr == [Called(run[r], <<"update">>) EXCEPT !.applied = acc]
              st == ApplyUpdate(store, run[r].records, acc)
          IN store' = IF out = "transport" THEN CatchStore(st, rr) ELSE st
       /\ LET rr == [Called(run[r], <<"update">>) EXCEPT !.applied = acc] IN
          run' = [run EXCEPT ![r] =
            IF out = "transport" THEN Caught(rr, FetchError, LogOf(rr))
            ELSE LET json == IF out = "error" THEN [kind |-> "error"]
                             ELSE [kind |-> "results", success |-> acc]
                 IN AfterDeactivation([rr EXCEPT !.response = json], json, LogOf(rr))]
  /\ UNCHANGED <<logSheetExists, nstarts, call>>

\* STEP 4 after the query, STEP 5 and formatOLIs
AfterRevisionQuery(rr, body, L) ==
  LET highestRevision == getHighestRevisionNumber(body)
      newRevision == highestRevision + 1
      oliData == [i \in 1..Len(rr.oliData) |-> Stamp(rr.oliData[i], rr.oppId, newRevision)]
      L1 == logMessage(L, "Highest Revision, New Revision")
      L2 == logMessage(L1, "New OLI records after augmentation")
      L3 == logMessage(L2, "formattedOliData")
  IN WithLog([rr EXCEPT !.pc = "create", !.highestRevision = highestRevision,
                        !.newRevision = newRevision, !.oliData = oliData,
                        !.formattedOliData = formatOLIs(oliData)], L3)

ComputeRevision(r) ==
  /\ run[r].pc = "revision"
  /\ \/ \E out \in {"token", "transport"} :
          /\ run' = [run EXCEPT ![r] =
            IF out = "token" THEN Caught(Called(@, <<"token">>), TokenError, LogOf(@))
            ELSE Caught(Called(@, <<"token", "maxquery">>), FetchError, LogOf(@))]
          /\ store' = CatchStore(store, run[r])
     \/ \E body \in MaxRevisionAnswers(store, run[r].oppId) :
          LET rr == [Called(run[r], <<"token", "maxquery">>) EXCEPT !.response = body]
          IN /\ run' = [run EXCEPT ![r] = AfterRevisionQuery(rr, body, LogOf(rr))]
             /\ UNCHANGED store
  /\ UNCHANGED <<logSheetExists, nstarts, call>>

\* processOliRecords after createLineItems returned `json`
AfterCreate(rr, json, L) ==
  LET L1 == logMessage(L, "Insertion results")
      L2 == logMessage(L1, "Process completed successfully")
  IN WithLog([rr EXCEPT !.pc = "done", !.insertionResults = json,
                        !.resultSummary = [deactivation |-> rr.deactivationResults,
                                           insertion |-> json]], L2)

\* createLineItems and the return of the summary
CreateLineItems(r) ==
  /\ run[r].pc = "create"
  /\ \/ /\ run' = [run EXCEPT ![r] = Caught(Called(@, <<"token">>), TokenError, LogOf(@))]
        /\ store' = CatchStore(store, run[r])
     \/ LET payload == CreatePayload(run[r].oppId, run[r].formattedOliData)
            ok == {i \in 1..Len(payload) : Acceptable(payload[i])}
            rr == [Called(run[r], <<"token", "create">>) EXCEPT !.payload = payload]
        IN \E out \in {"transport", "error", "results"} :
           \E acc \in SUBSET ok :
             /\ out = "error" => acc = {}
             /\ LET st == ApplyCreate(store, payload, acc, run[r].n, 1)
                IN store' = IF out = "transport" THEN CatchStore(st, rr) ELSE st
             /\ run' = [run EXCEPT ![r] =
                  IF out = "transport" THEN Caught(rr, FetchError, LogOf(rr))
                  ELSE LET json == IF out = "error" THEN [kind |-> "error"]
                                   ELSE [kind |-> "results", success |-> acc]
                       IN AfterCreate([rr EXCEPT !.response = json], json, LogOf(rr))]
  /\ UNCHANGED <<logSheetExists, nstarts, call>>

\* a run of the one execution, started when the last one has ended
Start == StartOn("e1", Workbooks)

GetActive == GetActiveLineItemIds("e1")

Deactivate == DeactivateUpdate("e1")

Revision == ComputeRevision("e1")

Create == CreateLineItems("e1")

Next == Start \/ GetActive \/ Deactivate \/ Revision \/ Create

Spec == Init /\ [][Next]_vars

(***************************************************************************)
(* Two executions, one run each, whose steps interleave                    *)
(***************************************************************************)
ConcWorkbooks == {WbP1, WbP2}

InitConc ==
  /\ store = <<>>
  /\ run = [r \in Runs |-> NoRun]
  /\ logSheetExists = FALSE
  /\ nstarts = 0
  /\ call = NoCall

StartConc(r) == run[r].pc = "idle" /\ StartOn(r, ConcWorkbooks)

NextConc ==
  \E r \in Runs :
    \/ StartConc(r)
    \/ GetActiveLineItemIds(r)
    \/ DeactivateUpdate(r)
    \/ ComputeRevision(r)
    \/ CreateLineItems(r)

SpecConc == InitConc /\ [][NextConc]_vars

(***************************************************************************)
(* The functions of the table builder called on their own, on every        *)
(* argument of a bounded set                                               *)
(***************************************************************************)
\* the longest parameter column
MaxCells == 3

OneKey(key, v) == JsonCell(Obj(<<KV(key, v)>>))

\* blank, not JSON, a JSON number, and objects that give the key "a" a
\* number, another number, an array and (after the key "b") null
LoadCells ==
  {BlankCell, TextCell, JsonCell(Num(5)),
   OneKey("a", Num(1)), OneKey("a", Num(2)), OneKey("a", Arr(<<Num(3)>>)),
   JsonCell(Obj(<<KV("b", Num(1)), KV("a", Null)>>))}

LoadCalls ==
  {[fn |-> "loadParametersFromJson", ss |-> Workbook(cells), ret |-> None] :
     cells \in UNION {[1..n -> LoadCells] : n \in 1..MaxCells}}

\* the widest header row and the longest group list
MaxCols == 2
MaxItems == 2

Item(label, api) == Obj(<<KV("object_label", label), KV("object_api_name", api)>>)

ItemProduct   == Item(Str("Product"), Str("Product__c"))
ItemPadded    == Item(StrP(1, "Product", 1), Str("Padded__c"))
ItemUnmatched == Item(Str("Missing"), Str("Missing__c"))

\* group elements: resolvable ones, one whose label is in no header, and
\* ones without the two fields (no api name, empty label, null, a number,
\* a string)
Items ==
  {ItemProduct, ItemPadded, ItemUnmatched,
   Obj(<<KV("object_label", Str("Product"))>>), Item(Empty, Str("Product__c")),
   Null, Num(5), Str("Product")}

GroupValues == Items \cup {Arr(a) : a \in UNION {[1..n -> Items] : n \in 1..MaxItems}}

MapHeaderCells == {Str("Product"), StrP(0, "Product", 1), Str("product"), Str("Price")}

\* the values of the reserved keys, with the two fields of a group element
InputSheetValue ==
  Obj(<<KV("Name", Str("Opp1")), KV("object_label", Str("Product")),
        KV("object_api_name", Str("Sheet__c"))>>)
HeaderRowValue ==
  Obj(<<KV("Name", Num(1)), KV("object_label", Str("Price")),
        KV("object_api_name", Str("Row__c"))>>)

\* the group "g" alone, between the reserved key "Input Sheet" and the
\* group "h", or before the reserved key "Table Header Row"
MapCalls ==
  {[fn |-> "mapping", params |-> params, headerRow |-> headerRow, ret |-> None] :
     params \in UNION {{<<KV("g", v)>>,
                         <<KV("Input Sheet", InputSheetValue), KV("g", v),
                           KV("h", Item(Str("Price"), Str("Price__c")))>>,
                         <<KV("g", v), KV("Table Header Row", HeaderRowValue)>>} :
                       v \in GroupValues},
     headerRow \in UNION {[1..n -> MapHeaderCells] : n \in 1..MaxCols}}

\* the longest list of resolved mappings of a group
MaxMappings == 2

\* resolved mappings: two output fields, and one named like the group "g"
MappingPairs == {[api |-> Str(a), col |-> c] : a \in {"A__c", "B__c", "g"}, c \in {0, 1}}

RecordRows == {<<Str("P1"), Num(7)>>, <<Num(7), Empty>>}

\* the group "g" with up to MaxMappings mappings, alone or before the
\* group "h" with none or one
RecordCalls ==
  {[fn |-> "record", overallMapping |-> m, row |-> row, ret |-> None] :
     m \in UNION {{<<KV("g", g)>>} \cup
                    {<<KV("g", g), KV("h", h)>> :
                       h \in {<<>>} \cup {<<p>> : p \in MappingPairs}} :
                  g \in UNION {[1..n -> MappingPairs] : n \in 0..MaxMappings}},
     row \in RecordRows}

\* the longest block of data rows
MaxRows == 3

\* data rows whose first cell is text, empty, null, a blank, or zero
TableRows == {<<Str("P1"), Num(7)>>, <<Empty, Num(7)>>, <<Null, Str("x")>>,
              <<StrP(1, "", 0), Num(7)>>, <<Num(0), Empty>>}

\* one group of two mappings: columns 0 and 1
RowsMapping == <<KV("g", <<[api |-> Str("A__c"), col |-> 0], [api |-> Str("B__c"), col |-> 1]>>)>>

RowsCalls ==
  {[fn |-> "rows", overallMapping |-> RowsMapping, dataRows |-> rows, ret |-> None] :
     rows \in UNION {[1..n -> TableRows] : n \in 1..MaxRows}}

\* the most keys of a Record
MaxKeys == 3

\* the fields of a Record: a number, null and a date cell at the top level,
\* and two groups that share keys with each other and with the top level
RecordFields ==
  {KV("A", Num(1)), KV("B", Null), KV("D", Date(0)),
   KV("g", Obj(<<KV("A", Num(2)), KV("C", Date(1))>>)),
   KV("h", Obj(<<KV("C", Str("x")), KV("B", Num(3))>>))}

\* the Records of up to MaxKeys of these fields, in any order
FormatRecords ==
  {rec \in UNION {[1..n -> RecordFields] : n \in 0..MaxKeys} :
     \A i \in 1..Len(rec) : \A j \in 1..Len(rec) : rec[i] = rec[j] => i = j}

\* one Record, alone or before a Record of two top-level fields
FormatCalls ==
  {[fn |-> "formatOLIs", oliData |-> rs, ret |-> None, again |-> None] :
     rs \in UNION {{<<rec>>, <<rec, <<KV("A", Num(1)), KV("B", Null)>>>>} :
                    rec \in FormatRecords}}

\* the most line items of a create call
MaxBatch == 2

\* flat records with or without a parent id and a discount: none, 0, 2,
\* null, text
LineItems ==
  {parent \o <<KV("Product__c", Str("Widget"))>> \o discount :
     parent \in {<<>>, <<KV("opportunity_id__c", Str("P1"))>>,
                 <<KV("opportunity_id__c", Str("P2"))>>},
     discount \in {<<>>} \cup {<<KV("Sales_Discount__c", v)>> :
                                 v \in {Num(0), Num(2), Null, Str("n/a")}}}

PayloadCalls ==
  {[fn |-> "createLineItems", oppId |-> Str("P1"), lineItems |-> items, ret |-> None] :
     items \in UNION {[1..n -> LineItems] : n \in 1..MaxBatch}}

\* the most messages logged before a flush
MaxMessages == 2

LogTexts == {"first", "second"}

\* the messages an execution logs before it flushes: none, or up to
\* MaxMessages texts, the same text twice too
LogCalls ==
  {[fn |-> "log", messages |-> ms, ret |-> None] :
     ms \in UNION {[1..n -> LogTexts] : n \in 0..MaxMessages}}

\* the log of an execution that has logged nothing yet
NoLog == [exists |-> FALSE, rows |-> <<>>, buf |-> <<>>]

InitCalls ==
  /\ store = <<>>
  /\ run = [r \in Runs |-> NoRun]
  /\ logSheetExists = FALSE
  /\ nstarts = 0
  /\ call \in LoadCalls \cup MapCalls \cup RecordCalls \cup RowsCalls
               \cup FormatCalls \cup PayloadCalls \cup LogCalls

CallLoad ==
  /\ call.fn = "loadParametersFromJson"
  /\ call.ret = None
  /\ call' = [call EXCEPT !.ret = loadParametersFromJson(call.ss, NoLog)]
  /\ logSheetExists' = TRUE
  /\ UNCHANGED <<store, run, nstarts>>

\* the mapping loop of buildDataTableFromParamsDynamic
CallMap ==
  /\ call.fn = "mapping"
  /\ call.ret = None
  /\ call' = [call EXCEPT !.ret = MapAll(call.params, call.headerRow, 1, <<>>, NoLog)]
  /\ logSheetExists' = call'.ret.L.exists
  /\ UNCHANGED <<store, run, nstarts>>

\* the body of the row loop of buildDataTableFromParamsDynamic: one Record
CallRecord ==
  /\ call.fn = "record"
  /\ call.ret = None
  /\ call' = [call EXCEPT !.ret = Obj(BuildRecord(call.overallMapping, call.row, 1, <<>>))]
  /\ UNCHANGED <<store, run, logSheetExists, nstarts>>

\* the row loop of buildDataTableFromParamsDynamic
CallRows ==
  /\ call.fn = "rows"
  /\ call.ret = None
  /\ call' = [call EXCEPT !.ret = BuildRows(call.overallMapping, call.dataRows, 1, <<>>, NoLog)]
  /\ logSheetExists' = call'.ret.L.exists
  /\ UNCHANGED <<store, run, nstarts>>

CallFormat ==
  /\ call.fn = "formatOLIs"
  /\ call.ret = None
  /\ call' = [call EXCEPT !.ret = Arr(formatOLIs(call.oliData))]
  /\ UNCHANGED <<store, run, logSheetExists, nstarts>>

\* formatOLIs called on what it returned
CallFormatAgain ==
  /\ call.fn = "formatOLIs"
  /\ call.ret # None
  /\ call.again = None
  /\ call' = [call EXCEPT !.again = Arr(formatOLIs(call.ret.a))]
  /\ UNCHANGED <<store, run, logSheetExists, nstarts>>

\* createLineItems up to the request: the records of the payload sent
CallPayload ==
  /\ call.fn = "createLineItems"
  /\ call.ret = None
  /\ call' = [call EXCEPT !.ret = Arr(CreatePayload(call.oppId, call.lineItems))]
  /\ UNCHANGED <<store, run, logSheetExists, nstarts>>

\* logMessage(ss, m) for m = messages[i], messages[i + 1], ...
RECURSIVE LogEach(_, _, _)
LogEach(L, messages, i) ==
  IF i > Len(messages) THEN L
  ELSE LogEach(logMessage(L, messages[i]), messages, i + 1)

\* an execution that logs its messages and then calls flushLogs
CallLog ==
  /\ call.fn = "log"
  /\ call.ret = None
  /\ call' = [call EXCEPT !.ret = flushLogs(LogEach(NoLog, call.messages, 1))]
  /\ logSheetExists' = call'.ret.exists
  /\ UNCHANGED <<store, run, nstarts>>

NextCalls ==
  \/ CallLoad \/ CallMap \/ CallRecord \/ CallRows
  \/ CallFormat \/ CallFormatAgain \/ CallPayload \/ CallLog

SpecCalls == InitCalls /\ [][NextCalls]_vars

(***************************************************************************)
(* Properties of the revisioning protocol                                  *)
(***************************************************************************)

\* C1: every record of the create batch a run submits carries the run's
\* parent id, active = true and the run's new revision.
C1_CreateBatchStamped ==
  \A r \in Runs : \A i \in 1..Len(run[r].payload) :
    LET rec == run[r].payload[i]
    IN /\ Get(rec, "opportunity_id__c") = run[r].oppId
       /\ Get(rec, "Active__c") = Bool(TRUE)
       /\ Get(rec, "Version_Number__c") = Num(run[r].newRevision)

\* C2: in a sequence of runs that do not overlap, the revision a run is
\* about to submit is greater than every revision number stored for its
\* parent, and is 1 when the parent has no line item.
C2_RevisionAboveStored ==
  \A r \in Runs :
    run[r].pc = "create" =>
      /\ \A v \in RevisionsOf(store, run[r].oppId) : v < run[r].newRevision
      /\ ItemsOf(store, run[r].oppId) = {} => run[r].newRevision = 1

\* C3: the revision computed by the ComputeRevision step is one more than
\* the greatest revision number stored for the parent at the time of the
\* query, active or not, taking 0 when there is none.
C3_NextRevision ==
  [][\A r \in Runs :
       (run[r].pc = "revision" /\ run'[r].pc = "create") =>
         LET stored == {store[id].rev.n :
                          id \in {i \in 1..Len(store) :
                                    /\ store[i].parent = run[r].oppId
                                    /\ store[i].rev.t = "num"}}
             highest == IF stored = {} THEN 0 ELSE Max(stored)
         IN run'[r].newRevision = highest + 1]_vars

\* C4: the update batch built by the deactivation step holds exactly the
\* ids of the line items that are active for the run's parent when the
\* query is answered, each with active = false; applying the batch changes
\* nothing but the active flag of those items.
C4_DeactivationBatch ==
  [][\A r \in Runs :
       /\ (run[r].pc = "deactivate" /\ run'[r].pc = "update") =>
            /\ DOMAIN run'[r].records =
                 {id \in 1..Len(store) : /\ store[id].parent = run[r].oppId
                                         /\ store[id].active = Bool(TRUE)}
            /\ \A id \in DOMAIN run'[r].records : run'[r].records[id] = Bool(FALSE)
       /\ (run[r].pc = "update" /\ run'[r].pc # "update") =>
            /\ Len(store') = Len(store)
            /\ \A id \in 1..Len(store) :
                 IF store[id].parent = run[r].oppId /\ store[id].active = Bool(TRUE)
                   THEN store'[id] \in {store[id], [store[id] EXCEPT !.active = Bool(FALSE)]}
                   ELSE store'[id] = store[id]]_vars

\* a run is about to deactivate an item of its parent while an item of
\* another parent is active
C4_Witness ==
  \E r \in Runs : \E id \in 1..Len(store) :
    /\ run[r].pc = "update"
    /\ run[r].activeLineItemIds # {}
    /\ store[id].parent # run[r].oppId
    /\ store[id].active = Bool(TRUE)

C6_MissingParentRaises ==
  \A r \in Runs :
    (run[r].n > 0 /\ run[r].oppId = Undef) =>
      (run[r].pc = "raised" /\ run[r].calls = <<>>)

\* C7: a run on a spreadsheet without the parameter sheet, without the
\* "Input Sheet" or "Table Header Row" parameter, or naming an input sheet
\* that does not exist has raised, its error line is the last log row, it
\* has no summary and has sent no request.
C7_ConfigurationErrorIsFatal ==
  \A r \in Runs :
    LET ss == run[r].ss
        objs == {ss.paramCells[i].v.o :
                   i \in {j \in 1..Len(ss.paramCells) :
                            /\ ss.paramCells[j].kind = "json"
                            /\ ss.paramCells[j].v.t = "obj"}}
        keys == UNION {{o[i].k : i \in 1..Len(o)} : o \in objs}
        named == UNION {{o[i].v.o[1].v.s : i \in {j \in 1..Len(o) : o[j].k = "Input Sheet"}} :
                          o \in objs}
        bad == \/ ~ss.hasParams
               \/ "Input Sheet" \notin keys
               \/ "Table Header Row" \notin keys
               \/ \E name \in named : name \notin DOMAIN ss.sheets
    IN (run[r].n > 0 /\ bad) =>
         /\ run[r].pc = "raised"
         /\ Len(run[r].rows) > 0
         /\ run[r].rows[Len(run[r].rows)] = ErrorLine
         /\ run[r].resultSummary = None
         /\ run[r].calls = <<>>

\* a run on a spreadsheet whose parameters lack "Input Sheet" has raised
C7_Witness ==
  \E r \in Runs :
    /\ run[r].ss = WbNoInputSheetKey
    /\ run[r].pc = "raised"
    /\ run[r].thrown.msg = "TypeError: cannot read Name"

\* C8: whatever the store answers to the deactivation batch (every update
\* accepted, some or all rejected, the whole request refused), the run goes
\* on to compute the revision, and a run that returns hands back the
\* summary holding the deactivation answer and the insertion answer.
C8_RejectedUpdatesDoNotAbort ==
  [][\A r \in Runs :
       /\ (/\ run[r].pc = "update"
           /\ run'[r].calls # run[r].calls
           /\ run'[r].response.kind \in {"error", "results"}) =>
            /\ run'[r].pc = "revision"
            /\ run'[r].deactivationResults = run'[r].response
       /\ (run[r].pc # "done" /\ run'[r].pc = "done") =>
            /\ run'[r].resultSummary = [deactivation |-> run[r].deactivationResults,
                                        insertion |-> run'[r].response]
            /\ run'[r].calls[Len(run'[r].calls)] = "create"
            /\ Len(run'[r].payload) = Len(run[r].oliData)]_vars

\* a run returned its summary although the store rejected an update of its
\* deactivation batch
C8_Witness ==
  \E r \in Runs :
    /\ run[r].pc = "done"
    /\ run[r].resultSummary.deactivation.kind = "results"
    /\ run[r].resultSummary.deactivation.success # run[r].activeLineItemIds
    /\ run[r].resultSummary.insertion.kind = "results"

\* C9: a run that raised after its deactivation batch was sent leaves every
\* line item the store deactivated for it inactive.
C9_NoRollback ==
  \A r \in Runs :
    (run[r].pc = "raised" /\ \E c \in 1..Len(run[r].calls) : run[r].calls[c] = "update") =>
      \A id \in run[r].applied : store[id].active = Bool(FALSE)

\* a run raised after its deactivations were applied and before anything
\* was inserted: its parent has line items and none of them is active
C9_Witness ==
  \E r \in Runs :
    /\ run[r].pc = "raised"
    /\ run[r].applied # {}
    /\ run[r].calls[Len(run[r].calls)] \in {"token", "maxquery", "create"}
    /\ \A id \in 1..Len(store) : store[id].by # run[r].n
    /\ \A id \in 1..Len(store) : store[id].parent = run[r].oppId => store[id].active = Bool(FALSE)

C11_FirstGeneration ==
  \A r \in Runs :
    (/\ run[r].pc = "done"
     /\ run[r].activeLineItemIds = {}
     /\ \A id \in 1..Len(store) :
          (store[id].parent = run[r].oppId /\ store[id].by # run[r].n)
            => store[id].rev.t # "num") =>
      /\ \E c \in 1..Len(run[r].calls) : run[r].calls[c] = "update"
      /\ DOMAIN run[r].records = {}
      /\ run[r].calls[Len(run[r].calls)] = "create"
      /\ Len(run[r].payload) = Len(run[r].oliData)
      /\ \A i \in 1..Len(run[r].payload) :
           /\ Get(run[r].payload[i], "Version_Number__c") = Num(1)
           /\ Get(run[r].payload[i], "Active__c") = Bool(TRUE)

\* C12: a run makes the active-id query, the update call, the revision
\* query and the create call at most once each; the create call carries one
\* record per record built; and when the run returns, the store holds of
\* this run exactly the records the create answer reports as taken, the
\* answer being what the run returns.
C12_NoRetry ==
  \A r \in Runs :
    LET calls == run[r].calls
        Count(x) == Cardinality({c \in 1..Len(calls) : calls[c] = x})
    IN /\ \A x \in {"query", "update", "maxquery", "create"} : Count(x) <= 1
       /\ Count("create") = 1 =>
            /\ Len(run[r].payload) = Len(run[r].oliData)
            /\ calls[Len(calls)] = "create"
       /\ run[r].pc = "done" =>
            /\ Count("create") = 1
            /\ run[r].resultSummary.insertion = run[r].response
            /\ run[r].response.kind = "results" =>
                 /\ run[r].response.success \subseteq 1..Len(run[r].payload)
                 /\ Cardinality({id \in 1..Len(store) : store[id].by = run[r].n})
                      = Cardinality(run[r].response.success)
            /\ run[r].response.kind = "error" =>
                 {id \in 1..Len(store) : store[id].by = run[r].n} = {}

\* a run returned after the store rejected one of the two records of its
\* create batch
C12_Witness ==
  \E r \in Runs :
    /\ run[r].pc = "done"
    /\ Len(run[r].payload) = 2
    /\ run[r].response.kind = "results"
    /\ Cardinality(run[r].response.success) = 1

(***************************************************************************)
(* Properties of the parameter loader                                      *)
(***************************************************************************)

\* C13: a key that appears in N > 1 parameter cells is returned with the
\* list of its N values in order of appearance, and a key that appears in
\* one cell is returned with that value itself, whatever the values are.
C13_AggregatesInOrder ==
  (call.fn = "loadParametersFromJson" /\ call.ret # None) =>
    LET cells == call.ss.paramCells
        first == IF ParseOk(cells[1]) THEN 1 ELSE 2
        IsObj(i) == cells[i].kind = "json" /\ cells[i].v.t = "obj"
    IN ~call.ret.thrown =>
         \A key \in {"a", "b"} :
           LET at == {i \in first..Len(cells) : IsObj(i) /\ Has(cells[i].v.o, key)}
               N == Cardinality(at)
               Nth(j) == CHOOSE i \in at : Cardinality({m \in at : m < i}) = j - 1
           IN /\ N = 0 => ~Has(call.ret.val, key)
              /\ N = 1 => Get(call.ret.val, key) = Get(cells[Nth(1)].v.o, key)
              /\ N > 1 => Get(call.ret.val, key)
                            = Arr([j \in 1..N |-> Get(cells[Nth(j)].v.o, key)])

\* C14: when the first parameter cell does not parse, the loader returns
\* what it returns with an empty object in its place (nothing added, no
\* error for row 1); when it parses, its keys are in the parameters
\* returned, with its value when no other cell has the key; a later cell
\* that is neither blank nor JSON is never passed over.
C14_HeaderOnlyFirstCell ==
  (call.fn = "loadParametersFromJson" /\ call.ret # None) =>
    LET cells == call.ss.paramCells
        IsObj(i) == cells[i].kind = "json" /\ cells[i].v.t = "obj"
    IN /\ ~ParseOk(cells[1]) =>
            /\ call.ret = loadParametersFromJson(
                             [call.ss EXCEPT !.paramCells[1] = JsonCell(Obj(<<>>))], NoLog)
            /\ call.ret.thrown => call.ret.val.row > 1
       /\ (IsObj(1) /\ ~call.ret.thrown) =>
            \A p \in 1..Len(cells[1].v.o) :
              LET key == cells[1].v.o[p].k IN
              /\ Has(call.ret.val, key)
              /\ (\A i \in 2..Len(cells) : ~(IsObj(i) /\ Has(cells[i].v.o, key)))
                    => Get(call.ret.val, key) = cells[1].v.o[p].v
       /\ (\E i \in 2..Len(cells) : cells[i] = TextCell) => call.ret.thrown

\* the loader returned parameters from a column whose first cell is a label
\* and whose later cells gave a key two values
C14_Witness ==
  /\ call.fn = "loadParametersFromJson"
  /\ call.ret # None
  /\ call.ss.paramCells[1] = TextCell
  /\ ~call.ret.thrown
  /\ Get(call.ret.val, "a") = Arr(<<Num(1), Num(2)>>)

\* C15: when the first cell after row 1 that is neither blank nor JSON is
\* in row i, the loader raises the parse error of row i and returns no
\* parameters; when every cell after row 1 is blank or JSON, the loader
\* returns parameters, and a blank cell adds nothing to them.
C15_BadRowAborts ==
  (call.fn = "loadParametersFromJson" /\ call.ret # None) =>
    LET cells == call.ss.paramCells
        bad == {i \in 2..Len(cells) : cells[i] = TextCell}
    IN /\ bad # {} =>
            /\ call.ret.thrown
            /\ call.ret.val = [msg |-> "Error parsing JSON at row",
                               row |-> CHOOSE i \in bad : \A j \in bad : i <= j]
       /\ bad = {} =>
            /\ ~call.ret.thrown
            /\ \A i \in 1..Len(call.ret.val) :
                 \E c \in 1..Len(cells) :
                   /\ cells[c].kind = "json" /\ cells[c].v.t = "obj"
                   /\ Has(cells[c].v.o, call.ret.val[i].k)

\* the loader raised for row 3 after a parameter cell and a blank cell
C15_Witness ==
  /\ call.fn = "loadParametersFromJson"
  /\ call.ret # None
  /\ call.ss.paramCells = <<OneKey("a", Num(1)), BlankCell, TextCell>>
  /\ call.ret.thrown
  /\ call.ret.val.row = 3

(***************************************************************************)
(* Properties of the mapping loop                                          *)
(***************************************************************************)

\* C16: when the mapping is built, each group's list holds, in element
\* order, one pair for every element that has both fields and whose
\* trimmed label equals the trimmed text of some header cell: the pair of
\* its object_api_name and the smallest index of such a cell.
C16_FirstMatchWins ==
  (call.fn = "mapping" /\ call.ret # None /\ ~call.ret.thrown) =>
    \A g \in 1..Len(call.params) :
      ~IsReservedKey(call.params[g].k) =>
        LET v == call.params[g].v
            elems == IF v.t = "arr" THEN v.a ELSE <<v>>
            Both(i) == /\ elems[i].t = "obj"
                       /\ Truthy(Get(elems[i].o, "object_label"))
                       /\ Truthy(Get(elems[i].o, "object_api_name"))
            Cols(i) == {j \in 0..(Len(call.headerRow) - 1) :
                          /\ call.headerRow[j + 1].s = Get(elems[i].o, "object_label").s
                          /\ call.headerRow[j + 1].t = "str"}
            at == {i \in 1..Len(elems) : Both(i) /\ Cols(i) # {}}
            Nth(q) == CHOOSE i \in at : Cardinality({m \in at : m < i}) = q - 1
            pairs == Get(call.ret.val, call.params[g].k)
        IN /\ Len(pairs) = Cardinality(at)
           /\ \A q \in 1..Len(pairs) :
                /\ pairs[q].api = Get(elems[Nth(q)].o, "object_api_name")
                /\ pairs[q].col \in Cols(Nth(q))
                /\ \A j \in Cols(Nth(q)) : pairs[q].col <= j

\* a padded label was resolved to the first of two header cells that hold
\* it, the second one padded
C16_Witness ==
  /\ call.fn = "mapping"
  /\ call.ret # None
  /\ call.headerRow = <<Str("Product"), StrP(0, "Product", 1)>>
  /\ call.params = <<KV("g", ItemPadded)>>
  /\ ~call.ret.thrown
  /\ Get(call.ret.val, "g") = <<[api |-> Str("Padded__c"), col |-> 0]>>

\* C17: the mapping built from a Configuration is the mapping built from
\* the Configuration without its elements whose label is in no header cell
\* (the same error or the same pairs for every group), and such an element
\* alone makes no error.
C17_UnmatchedLabelDropped ==
  (call.fn = "mapping" /\ call.ret # None) =>
    LET Labelled(e) == /\ e.t = "obj"
                       /\ Truthy(Get(e.o, "object_label"))
                       /\ Truthy(Get(e.o, "object_api_name"))
        Matched(e) == \E j \in 1..Len(call.headerRow) :
                        /\ call.headerRow[j].t = "str"
                        /\ call.headerRow[j].s = Get(e.o, "object_label").s
        Kept(e) == ~(Labelled(e) /\ ~Matched(e))
        Without(v) == IF v.t = "arr" THEN Arr(SelectSeq(v.a, Kept))
                      ELSE IF Kept(v) THEN v ELSE Arr(<<>>)
        rest == [g \in 1..Len(call.params) |->
                   IF IsReservedKey(call.params[g].k) THEN call.params[g]
                   ELSE KV(call.params[g].k, Without(call.params[g].v))]
        ref == MapAll(rest, call.headerRow, 1, <<>>, NoLog)
        Elems(v) == IF v.t = "arr" THEN {v.a[i] : i \in 1..Len(v.a)} ELSE {v}
    IN /\ call.ret.thrown = ref.thrown
       /\ call.ret.val = ref.val
       /\ (\A g \in 1..Len(call.params) : \A e \in Elems(call.params[g].v) : e # Null)
            => ~call.ret.thrown

\* a group of an element with a label no header cell has and a resolvable
\* element got the one pair of the resolvable element, and so did the next
\* group
C17_Witness ==
  /\ call.fn = "mapping"
  /\ call.ret # None
  /\ call.headerRow = <<Str("Price"), Str("Product")>>
  /\ Len(call.params) = 3
  /\ call.params[2] = KV("g", Arr(<<ItemUnmatched, ItemProduct>>))
  /\ ~call.ret.thrown
  /\ Get(call.ret.val, "g") = <<[api |-> Str("Product__c"), col |-> 1]>>
  /\ Get(call.ret.val, "h") = <<[api |-> Str("Price__c"), col |-> 0]>>

\* C18: whatever elements without object_label or object_api_name a
\* Configuration holds (an object without the field or with an empty one,
\* null, a number, a string), the mapping is built, and no group gets more
\* pairs than it has elements with both fields.
C18_IncompleteElementSkipped ==
  (call.fn = "mapping" /\ call.ret # None) =>
    /\ ~call.ret.thrown
    /\ \A g \in 1..Len(call.params) :
         ~IsReservedKey(call.params[g].k) =>
           LET v == call.params[g].v
               elems == IF v.t = "arr" THEN v.a ELSE <<v>>
               both == {i \in 1..Len(elems) :
                          /\ elems[i].t = "obj"
                          /\ Has(elems[i].o, "object_label")
                          /\ Get(elems[i].o, "object_label") # Empty
                          /\ Has(elems[i].o, "object_api_name")
                          /\ Get(elems[i].o, "object_api_name") # Empty}
           IN Len(Get(call.ret.val, call.params[g].k)) <= Cardinality(both)

(***************************************************************************)
(* Properties of the Record of one row                                     *)
(***************************************************************************)

\* C19 as stated: a group with one mapping gives the Record a top-level
\* field named by the mapping's output field, holding the mapped cell; a
\* group with k >= 2 mappings gives it an object under the grouping key
\* with exactly k entries, each the mapped cell under its output field.
C19_FlatOrNested ==
  (call.fn = "record" /\ call.ret # None) =>
    \A g \in 1..Len(call.overallMapping) :
      LET m == call.overallMapping[g].v
          k == Len(m)
          nested == Get(call.ret.o, call.overallMapping[g].k)
      IN /\ k = 1 => /\ Has(call.ret.o, m[1].api.s)
                      /\ Get(call.ret.o, m[1].api.s) = call.row[m[1].col + 1]
         /\ k >= 2 => /\ nested.t = "obj"
                       /\ Len(nested.o) = k
                       /\ \A i \in 1..k : nested.o[i] = KV(m[i].api.s, call.row[m[i].col + 1])

\* C19 amended: the Record holds under each key what the last group that
\* writes the key wrote.  A group with one mapping writes the mapped cell
\* under the mapping's output field; a group with k >= 2 mappings writes,
\* under the grouping key, an object with one entry for each distinct
\* output field of the group (exactly k entries when the k names differ),
\* each holding the cell of the group's last mapping with that name.
C19_LastWriterWins ==
  (call.fn = "record" /\ call.ret # None) =>
    LET om == call.overallMapping
        Key(g) == IF Len(om[g].v) = 1 THEN om[g].v[1].api.s ELSE om[g].k
        writers == {g \in 1..Len(om) : Len(om[g].v) >= 1}
        Last(g) == \A h \in writers : Key(h) = Key(g) => h <= g
    IN /\ {call.ret.o[i].k : i \in 1..Len(call.ret.o)} = {Key(g) : g \in writers}
       /\ \A g \in writers :
            Last(g) =>
              LET m == om[g].v
                  k == Len(m)
                  value == Get(call.ret.o, Key(g))
                  names == {m[i].api.s : i \in 1..k}
              IN /\ k = 1 => value = call.row[m[1].col + 1]
                 /\ k >= 2 =>
                      /\ value.t = "obj"
                      /\ {value.o[i].k : i \in 1..Len(value.o)} = names
                      /\ Len(value.o) = Cardinality(names)
                      /\ \A i \in 1..k :
                           (\A j \in (i + 1)..k : m[j].api # m[i].api)
                             => Get(value.o, m[i].api.s) = call.row[m[i].col + 1]

\* a Record with a nested object of two entries under "g" and the flat
\* field of the group "h"
C19_Witness ==
  /\ call.fn = "record"
  /\ call.ret # None
  /\ call.row = <<Str("P1"), Num(7)>>
  /\ call.ret.o = <<KV("g", Obj(<<KV("A__c", Str("P1")), KV("B__c", Num(7))>>)),
                   KV("B__c", Str("P1"))>>

\* C20: the Record is the Record of the mapping without its groups of no
\* mapping, and the grouping key of such a group is a key of the Record
\* only if another group writes it.
C20_EmptyGroupOmitted ==
  (call.fn = "record" /\ call.ret # None) =>
    LET om == call.overallMapping
        NonEmpty(grp) == Len(grp.v) > 0
        Key(g) == IF Len(om[g].v) = 1 THEN om[g].v[1].api.s ELSE om[g].k
    IN /\ call.ret.o = BuildRecord(SelectSeq(om, NonEmpty), call.row, 1, <<>>)
       /\ \A g \in 1..Len(om) :
            (/\ Len(om[g].v) = 0
             /\ \A h \in 1..Len(om) : (Len(om[h].v) > 0 => Key(h) # om[g].k))
              => ~Has(call.ret.o, om[g].k)

\* a Record of one field built from a mapping whose group "h" is empty
C20_Witness ==
  /\ call.fn = "record"
  /\ call.ret # None
  /\ Len(call.overallMapping) = 2
  /\ call.overallMapping[2] = KV("h", <<>>)
  /\ Len(call.overallMapping[1].v) = 1
  /\ Len(call.ret.o) = 1

(***************************************************************************)
(* Properties of the row loop                                              *)
(***************************************************************************)

\* C21: with r the number of data rows before the first row whose first
\* cell is the empty string or null (all of them when there is none), the
\* row loop returns r records, the i-th built from the i-th row, whatever
\* the rows from that row on hold.
C21_StopsAtBlankRow ==
  (call.fn = "rows" /\ call.ret # None) =>
    LET rows == call.dataRows
        blank == {i \in 1..Len(rows) : rows[i][1] = Str("") \/ rows[i][1] = Null}
        r == IF blank = {} THEN Len(rows)
             ELSE (CHOOSE i \in blank : \A j \in blank : i <= j) - 1
    IN /\ ~call.ret.thrown
       /\ Len(call.ret.val) = r
       /\ \A i \in 1..r :
            call.ret.val[i] = <<KV("g", Obj(<<KV("A__c", rows[i][1]), KV("B__c", rows[i][2])>>))>>

\* two records were built from the rows before an empty first cell, the
\* second from a row whose first cell is 0
C21_Witness ==
  /\ call.fn = "rows"
  /\ call.ret # None
  /\ call.dataRows = <<<<Str("P1"), Num(7)>>, <<Num(0), Empty>>, <<Empty, Num(7)>>>>
  /\ Len(call.ret.val) = 2

(***************************************************************************)
(* Properties of formatOLIs                                                *)
(***************************************************************************)

C23_Idempotent ==
  (call.fn = "formatOLIs" /\ call.again # None) =>
    LET Plain(rs) == \A n \in 1..Len(rs) : \A i \in 1..Len(rs[n]) :
                       rs[n][i].v.t \notin {"obj", "arr", "date"}
    IN /\ Plain(call.oliData) => (call.ret.a = call.oliData /\ call.again = call.ret)
       /\ call.again = call.ret

(***************************************************************************)
(* Properties of the create payload                                        *)
(***************************************************************************)

C27_ReservedKeysUnmapped ==
  (call.fn = "mapping" /\ call.ret # None /\ ~call.ret.thrown) =>
    LET Grouping(kv) == kv.k \notin {"Input Sheet", "Table Header Row"}
        groups == SelectSeq(call.params, Grouping)
        Column(e) == FindHeader(call.headerRow, Trim(ToStr(Get(e.o, "object_label"))), 0)
        Resolved(e) == /\ e.t = "obj"
                       /\ Truthy(Get(e.o, "object_label"))
                       /\ Truthy(Get(e.o, "object_api_name"))
                       /\ Column(e) >= 0
        PairsOf(v) ==
          LET elems == SelectSeq(IF v.t = "arr" THEN v.a ELSE <<v>>, Resolved)
          IN [i \in 1..Len(elems) |->
                [api |-> Get(elems[i].o, "object_api_name"), col |-> Column(elems[i])]]
    IN /\ Len(call.ret.val) = Len(groups)
       /\ \A g \in 1..Len(groups) :
            /\ call.ret.val[g].k = groups[g].k
            /\ call.ret.val[g].v = PairsOf(groups[g].v)
            /\ \A p \in 1..Len(call.ret.val[g].v) :
                 call.ret.val[g].v[p].api \notin {Str("Sheet__c"), Str("Row__c")}

\* a Configuration whose "Table Header Row" value has a label of the header
\* row and an api name, after a group of two resolvable elements, got the
\* one entry of the group, with its two pairs in the order of the elements
C27_Witness ==
  /\ call.fn = "mapping"
  /\ call.ret # None
  /\ call.headerRow = <<Str("Price"), Str("Product")>>
  /\ call.params = <<KV("g", Arr(<<ItemPadded, ItemProduct>>)),
                     KV("Table Header Row", HeaderRowValue)>>
  /\ ~call.ret.thrown
  /\ call.ret.val = <<KV("g", <<[api |-> Str("Padded__c"), col |-> 1],
                                [api |-> Str("Product__c"), col |-> 1]>>)>>

\* C30: after an execution has logged its messages and flushed, the log
\* sheet holds the header row, written when the first message created the
\* sheet, and then each message once, in the order of the calls, and the
\* buffer is empty.
C30_LoggedOnce ==
  (call.fn = "log" /\ call.ret # None) =>
    /\ call.ret.buf = <<>>
    /\ call.ret.rows = IF call.messages = <<>> THEN <<>>
                       ELSE <<LogHeader>> \o call.messages

(***************************************************************************)
(* Properties of the order of the remote calls                             *)
(***************************************************************************)

\* C25: the data requests of a run are, in order, a beginning of: active-id
\* query, deactivation update, max-revision query, create; and the create
\* request is sent only when the deactivation call has returned its answer.
C25_FixedOrder ==
  \A r \in Runs :
    LET IsRequest(c) == c # "token"
        requests == SelectSeq(run[r].calls, IsRequest)
        order == <<"query", "update", "maxquery", "create">>
    IN /\ Len(requests) <= 4
       /\ requests = SubSeq(order, 1, Len(requests))
       /\ (\E c \in 1..Len(requests) : requests[c] \in {"maxquery", "create"})
            => run[r].deactivationResults # None

\* a run has sent its four requests and returned
C25_Witness ==
  \E r \in Runs :
    /\ run[r].pc = "done"
    /\ SelectSeq(run[r].calls, LAMBDA c : c # "token")
         = <<"query", "update", "maxquery", "create">>

\* C26: the calls of a run are a beginning of: token, token, active-id
\* query, update, token, max-revision query, token, create, so that every
\* request follows a token exchange of its operation; a run whose token
\* exchange gave no token has raised with the token exchange as its last
\* call, and a run that has raised makes no further call.
C26_TokenBeforeRequest ==
  [][\A r \in Runs :
       LET all == <<"token", "token", "query", "update",
                    "token", "maxquery", "token", "create">>
           calls == run'[r].calls
       IN /\ Len(calls) <= Len(all)
          /\ calls = SubSeq(all, 1, Len(calls))
          /\ run'[r].thrown = TokenError =>
               /\ run'[r].pc = "raised"
               /\ Len(calls) > 0
               /\ calls[Len(calls)] = "token"
          /\ (run[r].pc = "raised" /\ run'[r].n = run[r].n) =>
               (run'[r].pc = "raised" /\ calls = run[r].calls)]_vars

\* a run raised at the token exchange of the max-revision query, after its
\* update
C26_Witness ==
  \E r \in Runs :
    /\ run[r].pc = "raised"
    /\ run[r].thrown = TokenError
    /\ run[r].calls = <<"token", "token", "query", "update", "token">>

\* C28: a run whose active-id query is answered without a records field
\* raises at that step, with no update and no create request among its
\* calls, and the step leaves the store as it is, as the start of the run
\* did.
C28_QueryErrorLeavesStore ==
  [][\A r \in Runs :
       /\ (/\ run[r].pc = "deactivate"
           /\ run'[r].calls # run[r].calls
           /\ run'[r].response = [kind |-> "error"]) =>
            /\ run'[r].pc = "raised"
            /\ store' = store
            /\ \A c \in 1..Len(run'[r].calls) : run'[r].calls[c] \notin {"update", "create"}
       /\ run'[r].pc = "deactivate" => store' = store]_vars

\* a run raised on a query error while a line item of its parent was active
C28_Witness ==
  \E r \in Runs : \E id \in 1..Len(store) :
    /\ run[r].pc = "raised"
    /\ run[r].response = [kind |-> "error"]
    /\ run[r].calls = <<"token", "token", "query">>
    /\ store[id].parent = run[r].oppId
    /\ store[id].active = Bool(TRUE)

\* C29: the parent id of a run is the one in the line item group of the
\* first record built; every record the run submits carries it, whatever
\* the parent cell of its row; and the ids the run queried and the updates
\* the store applied for it are of line items of that parent.
C29_OneParentPerRun ==
  \A r \in Runs :
    Len(run[r].oliData) > 0 =>
      /\ run[r].oppId = Get(Get(run[r].oliData[1], LineItemGroup).o, "opportunity_id__c")
      /\ \A i \in 1..Len(run[r].payload) :
           Get(run[r].payload[i], "opportunity_id__c") = run[r].oppId
      /\ \A id \in run[r].activeLineItemIds \cup run[r].applied :
           store[id].parent = run[r].oppId

\* a run submitted two records under its parent, the second built from a
\* row of another parent, and that row's line item is stored under the
\* run's parent
C29_Witness ==
  \E r \in Runs : \E id \in 1..Len(store) :
    /\ run[r].pc = "done"
    /\ Len(run[r].payload) = 2
    /\ Get(Get(run[r].oliData[2], LineItemGroup).o, "opportunity_id__c") # run[r].oppId
    /\ Get(run[r].payload[2], "opportunity_id__c") = run[r].oppId
    /\ store[id].by = run[r].n
    /\ store[id].parent = run[r].oppId

====
